---- MODULE Spec2Model ----
(***************************************************************************)
(* Model of src/components/common/DynamicDetailsModal.tsx: the value       *)
(* formatter (formatValue), the field grouper (basicFields, mediaFields,   *)
(* metaFields, otherFields), the section body with its separators, the     *)
(* dialog title and the action bar.                                        *)
(*                                                                         *)
(* A JavaScript string is modelled as a sequence of one-character strings, *)
(* so that includes / startsWith / trim / replace are computed, not        *)
(* tabulated.  TLA+ string literals are used only for tags of the model    *)
(* (node kinds, value shapes, column types).                               *)
(***************************************************************************)
EXTENDS Integers, Sequences, FiniteSets, TLC

(* ------------------------------------------------------------------ *)
(* Bounds                                                             *)
(* ------------------------------------------------------------------ *)
MaxCols == 3

MaxModalCols == 1

MaxActions == 2

MaxSubmits == 3

MaxPassword == 8

(* ------------------------------------------------------------------ *)
(* Strings                                                            *)
(* ------------------------------------------------------------------ *)
s_title == <<"t","i","t","l","e">>

s_subtitle == <<"s","u","b","t","i","t","l","e">>

s_name == <<"n","a","m","e">>

s_email == <<"e","m","a","i","l">>

s_phone == <<"p","h","o","n","e">>

s_createdAt == <<"c","r","e","a","t","e","d","A","t">>

s_updatedAt == <<"u","p","d","a","t","e","d","A","t">>

s_author == <<"a","u","t","h","o","r">>

s_views == <<"v","i","e","w","s">>

s_priority == <<"p","r","i","o","r","i","t","y">>

s_status == <<"s","t","a","t","u","s">>

s_image == <<"i","m","a","g","e">>

s_http == <<"h","t","t","p">>

s_data == <<"d","a","t","a",":">>

s_blob == <<"b","l","o","b",":">>

s_br == <<"<","b","r",">">>

s_undefined == <<"u","n","d","e","f","i","n","e","d">>

s_null == <<"n","u","l","l">>

s_true == <<"t","r","u","e">>

s_false == <<"f","a","l","s","e">>

s_objectObject == <<"[","o","b","j","e","c","t"," ","O","b","j","e","c","t","]">>

s_profileImage == <<"p","r","o","f","i","l","e","_","i","m","a","g","e">>

s_tags == <<"t","a","g","s">>

s_notes == <<"n","o","t","e","s">>

s_active == <<"a","c","t","i","v","e">>

s_inactive == <<"i","n","a","c","t","i","v","e">>

s_Widget == <<"W","i","d","g","e","t">>

s_url == <<"h","t","t","p",":","/","/","x","/","a">>

s_png == <<"a",".","p","n","g">>

s_isoDate == <<"2","0","2","4","-","0","1","-","0","1">>

s_blank == <<" ","\n">>

s_twoLines == <<"a","\n","b">>

(* String.prototype.startsWith *)
startsWith(s, p) ==
  /\ Len(p) <= Len(s)
  /\ SubSeq(s, 1, Len(p)) = p

(* String.prototype.includes *)
includes(s, p) ==
  \E i \in 0..(Len(s) - Len(p)) : SubSeq(s, i + 1, i + Len(p)) = p

(* String.prototype.trim: the string without its leading and trailing     *)
(* white space                                                             *)
trim(s) ==
  LET inner == { i \in 1..Len(s) : s[i] \notin {" ", "\n", "\t"} }
  IN IF inner = {} THEN << >>
     ELSE SubSeq(s, CHOOSE i \in inner : \A j \in inner : i <= j,
                    CHOOSE i \in inner : \A j \in inner : j <= i)

(* String.prototype.replace(/\n/g, "<br>") *)
RECURSIVE replaceNewlines(_)
replaceNewlines(s) ==
  IF s = << >> THEN << >>
  ELSE IF Head(s) = "\n" THEN s_br \o replaceNewlines(Tail(s))
  ELSE <<Head(s)>> \o replaceNewlines(Tail(s))

Digit(d) == CASE d = 0 -> "0" [] d = 1 -> "1" [] d = 2 -> "2" [] d = 3 -> "3"
              [] d = 4 -> "4" [] d = 5 -> "5" [] d = 6 -> "6" [] d = 7 -> "7"
              [] d = 8 -> "8" [] d = 9 -> "9"

(* Number -> decimal string, as String(n) does for a non-negative integer *)
RECURSIVE NatToString(_)
NatToString(n) ==
  IF n < 10 THEN <<Digit(n)>>
  ELSE NatToString(n \div 10) \o <<Digit(n % 10)>>

NumberToString(n) ==
  IF n < 0 THEN <<"-">> \o NatToString(0 - n) ELSE NatToString(n)

(* Number.prototype.toLocaleString for an integer, en-US grouping *)
RECURSIVE GroupDigits(_)
GroupDigits(s) ==
  IF Len(s) <= 3 THEN s
  ELSE GroupDigits(SubSeq(s, 1, Len(s) - 3)) \o <<",">> \o SubSeq(s, Len(s) - 2, Len(s))

toLocaleString(n) ==
  IF n < 0 THEN <<"-">> \o GroupDigits(NatToString(0 - n))
  ELSE GroupDigits(NatToString(n))

(* ------------------------------------------------------------------ *)
(* JavaScript values (the `unknown` of a record field)                *)
(* ------------------------------------------------------------------ *)
Null == [shape |-> "null", str |-> << >>, num |-> 0, bool |-> FALSE]

Undefined == [shape |-> "undefined", str |-> << >>, num |-> 0, bool |-> FALSE]

Str(s) == [shape |-> "string", str |-> s, num |-> 0, bool |-> FALSE]

Num(n) == [shape |-> "number", str |-> << >>, num |-> n, bool |-> FALSE]

Bool(b) == [shape |-> "boolean", str |-> << >>, num |-> 0, bool |-> b]

Scalar(x) ==
  [shape |-> x.shape, str |-> x.str, num |-> x.num, bool |-> x.bool,
   elems |-> << >>, entries |-> << >>]

Arr(xs) ==
  [shape |-> "array", str |-> << >>, num |-> 0, bool |-> FALSE,
   elems |-> xs, entries |-> << >>]

Obj(es) ==
  [shape |-> "object", str |-> << >>, num |-> 0, bool |-> FALSE,
   elems |-> << >>, entries |-> es]

Entry(k, v) == [key |-> k, val |-> v]

(* value === null || value === undefined *)
IsNullish(v) == v.shape \in {"null", "undefined"}

(* JavaScript truthiness of a scalar value *)
Truthy(v) ==
  CASE v.shape \in {"null", "undefined"} -> FALSE
    [] v.shape = "string" -> v.str # << >>
    [] v.shape = "number" -> v.num # 0
    [] v.shape = "boolean" -> v.bool
    [] OTHER -> TRUE

(* String(x) for a scalar *)
ScalarToString(x) ==
  CASE x.shape = "null" -> s_null
    [] x.shape = "undefined" -> s_undefined
    [] x.shape = "string" -> x.str
    [] x.shape = "number" -> NumberToString(x.num)
    [] x.shape = "boolean" -> IF x.bool THEN s_true ELSE s_false

(* Array.prototype.join(","): null and undefined elements give "" *)
RECURSIVE JoinElems(_)
JoinElems(xs) ==
  IF xs = << >> THEN << >>
  ELSE LET h == IF IsNullish(Head(xs)) THEN << >> ELSE ScalarToString(Head(xs))
       IN IF Len(xs) = 1 THEN h ELSE h \o <<",">> \o JoinElems(Tail(xs))

(* String(value) *)
StringOf(v) ==
  CASE v.shape = "array" -> JoinElems(v.elems)
    [] v.shape = "object" -> s_objectObject
    [] OTHER -> ScalarToString(v)

(* ------------------------------------------------------------------ *)
(* Column and action descriptors                                      *)
(* ------------------------------------------------------------------ *)
(* An optional string property (option.color, option.icon) *)
Absent == [present |-> FALSE, str |-> << >>]

Present(s) == [present |-> TRUE, str |-> s]

(* truthiness of an optional string property *)
OptTruthy(o) == o.present /\ o.str # << >>

Option(v, l, c, i) == [value |-> v, label |-> l, color |-> c, icon |-> i]

(* ColumnConfig: type "default" stands for a column without a built-in     *)
(* type case; hasOptions tells whether column.options is set; render is    *)
(* "absent" or the name of the caller's render function.                   *)
Column(k, t, r) ==
  [key |-> k, label |-> k, type |-> t, hasOptions |-> FALSE, options |-> << >>,
   render |-> r]

SelectColumn(k, opts) ==
  [key |-> k, label |-> k, type |-> "select", hasOptions |-> TRUE,
   options |-> opts, render |-> "absent"]

(* A record: the present keys and their values; item[key] of a key that    *)
(* is not present is undefined.                                            *)
Get(item, key) ==
  IF \E i \in 1..Len(item) : item[i].key = key
  THEN item[CHOOSE i \in 1..Len(item) :
              /\ item[i].key = key
              /\ \A j \in 1..Len(item) : item[j].key = key => j <= i].val
  ELSE Scalar(Undefined)

(* ------------------------------------------------------------------ *)
(* Presentation nodes                                                 *)
(* ------------------------------------------------------------------ *)
Sentinel(l) == [kind |-> "sentinel", label |-> l]

NotProvided == Sentinel("Not provided")

NoImage == Sentinel("No image")

NoneNode == Sentinel("None")

NoneProvided == Sentinel("None provided")

DateNode(t) == [kind |-> "date", text |-> t]

LinkNode(h) == [kind |-> "link", href |-> h, text |-> h]

BadgeNode(variant, t, c, i) ==
  [kind |-> "badge", variant |-> variant, text |-> t, color |-> c, icon |-> i]

ImageNode(src, w, h) ==
  [kind |-> "image", src |-> src, width |-> w, height |-> h,
   unoptimized |-> startsWith(src, s_data) \/ startsWith(src, s_blob)]

GridNode(imgs, caption) == [kind |-> "imageGrid", images |-> imgs, caption |-> caption]

HtmlNode(h) == [kind |-> "html", html |-> h]

TagsNode(bs) == [kind |-> "tags", badges |-> bs]

RowsNode(rs) == [kind |-> "rows", rows |-> rs]

MonoNode(t) == [kind |-> "mono", text |-> t]

TextNode(t) == [kind |-> "text", text |-> t]

(* what a caller's render function returned *)
CustomNode(v, item) == [kind |-> "custom", value |-> v, item |-> item]

NullNode == [kind |-> "null"]

(* truthiness of a React node, as `||` in the title expression sees it *)
NodeTruthy(n) == n.kind # "null"

(* ------------------------------------------------------------------ *)
(* formatValue                                                        *)
(* ------------------------------------------------------------------ *)
(* The result of one call: outcome "node" (returned) or "throw" (raised),  *)
(* the node returned, the branch of the code that produced it, and whether *)
(* the column's render function was called.                                *)
Returned(n, b) == [outcome |-> "node", node |-> n, branch |-> b, renderCalled |-> FALSE]

Raised(b) == [outcome |-> "throw", node |-> NullNode, branch |-> b, renderCalled |-> FALSE]

(* column.render(value, item) for the render functions of the model:       *)
(* one returns a node built from its arguments, one returns null, one      *)
(* throws.                                                                 *)
ApplyRender(render, value, item) ==
  CASE render = "renderNode" ->
         [outcome |-> "node", node |-> CustomNode(value, item), branch |-> "render",
          renderCalled |-> TRUE]
    [] render = "renderNull" ->
         [outcome |-> "node", node |-> NullNode, branch |-> "render",
          renderCalled |-> TRUE]
    [] render = "renderThrow" ->
         [outcome |-> "throw", node |-> NullNode, branch |-> "render",
          renderCalled |-> TRUE]

(* new Date(s).toLocaleDateString(): an ISO date YYYY-MM-DD gives M/D/YYYY *)
(* (en-US, UTC); a string that is not a date gives "Invalid Date".         *)
s_InvalidDate == <<"I","n","v","a","l","i","d"," ","D","a","t","e">>

toLocaleDateString(s) ==
  IF /\ Len(s) = 10
     /\ s[5] = "-" /\ s[8] = "-"
     /\ \A i \in {1, 2, 3, 4, 6, 7, 9, 10} : \E n \in 0..9 : Digit(n) = s[i]
  THEN LET DigitValue(c) == CHOOSE n \in 0..9 : Digit(n) = c
           m == 10 * DigitValue(s[6]) + DigitValue(s[7])
           d == 10 * DigitValue(s[9]) + DigitValue(s[10])
       IN IF m \in 1..12 /\ d \in 1..31
          THEN NatToString(m) \o <<"/">> \o NatToString(d) \o <<"/">> \o SubSeq(s, 1, 4)
          ELSE s_InvalidDate
  ELSE s_InvalidDate

(* mutant: the last matching option is taken instead of the first *)
FindOption_Last(options, s) ==
  IF \E i \in 1..Len(options) : options[i].value = s
  THEN CHOOSE i \in 1..Len(options) :
         /\ options[i].value = s
         /\ \A j \in (i + 1)..Len(options) : options[j].value # s
  ELSE 0

(* column.options.find((opt) => opt.value === String(value)): the index of *)
(* the first matching option, 0 when there is none                         *)
FindOption(options, s) ==
  IF \E i \in 1..Len(options) : options[i].value = s
  THEN CHOOSE i \in 1..Len(options) :
         /\ options[i].value = s
         /\ \A j \in 1..(i - 1) : options[j].value # s
  ELSE 0

FormatSelect(value, col) ==
  LET i == IF col.hasOptions THEN FindOption(col.options, StringOf(value)) ELSE 0
  IN IF i # 0
     THEN BadgeNode("secondary", col.options[i].label,
                    IF OptTruthy(col.options[i].color) THEN col.options[i].color ELSE Absent,
                    IF OptTruthy(col.options[i].icon) THEN col.options[i].icon ELSE Absent)
     ELSE BadgeNode("outline", StringOf(value), Absent, Absent)

s_images == <<" ","i","m","a","g","e","s">>

s_imageSingular == <<" ","i","m","a","g","e">>

(* mutant: a string is taken as an image whenever it is not empty *)
FormatImage_NoTrim(value) ==
  IF value.shape = "string" /\ value.str # << >>
  THEN ImageNode(value.str, 400, 300)
  ELSE IF value.shape = "array" /\ Len(value.elems) > 0
  THEN GridNode([i \in 1..Len(value.elems) |->
                   ImageNode(ScalarToString(value.elems[i]), 150, 150)],
                NatToString(Len(value.elems))
                  \o (IF Len(value.elems) > 1 THEN s_images ELSE s_imageSingular))
  ELSE NoImage

(* mutant: the caption is always in the plural *)
FormatImage_Plural(value) ==
  IF value.shape = "string" /\ trim(value.str) # << >>
  THEN ImageNode(value.str, 400, 300)
  ELSE IF value.shape = "array" /\ Len(value.elems) > 0
  THEN GridNode([i \in 1..Len(value.elems) |->
                   ImageNode(ScalarToString(value.elems[i]), 150, 150)],
                NatToString(Len(value.elems)) \o s_images)
  ELSE NoImage

FormatImage(value) ==
  IF value.shape = "string" /\ trim(value.str) # << >>
  THEN ImageNode(value.str, 400, 300)
  ELSE IF value.shape = "array" /\ Len(value.elems) > 0
  THEN GridNode([i \in 1..Len(value.elems) |->
                   ImageNode(ScalarToString(value.elems[i]), 150, 150)],
                NatToString(Len(value.elems))
                  \o (IF Len(value.elems) > 1 THEN s_images ELSE s_imageSingular))
  ELSE NoImage

(* mutant: only null and undefined entries are dropped *)
TruthyEntries_KeepZero(es) == SelectSeq(es, LAMBDA e : ~IsNullish(e.val))

(* Object.entries(obj).filter(([, v]) => v) *)
TruthyEntries(es) == SelectSeq(es, LAMBDA e : Truthy(e.val))

FormatObject(value) ==
  LET entries == TruthyEntries(value.entries)
  IN IF Len(entries) = 0
     THEN NoneProvided
     ELSE RowsNode([i \in 1..Len(entries) |->
            [key |-> entries[i].key,
             link |-> entries[i].val.shape = "string"
                        /\ startsWith(entries[i].val.str, s_http),
             text |-> ScalarToString(entries[i].val)]])

(* mutant: the tags come out in reverse order *)
FormatArray_Reversed(value) ==
  IF Len(value.elems) = 0
  THEN NoneNode
  ELSE TagsNode([i \in 1..Len(value.elems) |->
         BadgeNode("outline", ScalarToString(value.elems[Len(value.elems) + 1 - i]),
                   Absent, Absent)])

FormatArray(value) ==
  IF Len(value.elems) = 0
  THEN NoneNode
  ELSE TagsNode([i \in 1..Len(value.elems) |->
         BadgeNode("outline", ScalarToString(value.elems[i]), Absent, Absent)])

s_Yes == <<"Y","e","s">>

s_No == <<"N","o">>

(* mutant: the boolean test is missing, a boolean falls to the string case *)
formatByShape_NoBoolean(value) ==
  IF value.shape = "array" THEN Returned(FormatArray(value), "array")
  ELSE IF value.shape = "object" THEN Returned(FormatObject(value), "object")
  ELSE IF value.shape = "number"
  THEN Returned(MonoNode(toLocaleString(value.num)), "number")
  ELSE Returned(TextNode(StringOf(value)), "string")

(* the default case of the switch: dispatch on the shape of the value, in  *)
(* the order array, object, boolean, number, string                        *)
formatByShape(value) ==
  IF value.shape = "array" THEN Returned(FormatArray(value), "array")
  ELSE IF value.shape = "object" THEN Returned(FormatObject(value), "object")
  ELSE IF value.shape = "boolean"
  THEN Returned(BadgeNode(IF value.bool THEN "default" ELSE "secondary",
                          IF value.bool THEN s_Yes ELSE s_No, Absent, Absent),
                "boolean")
  ELSE IF value.shape = "number"
  THEN Returned(MonoNode(toLocaleString(value.num)), "number")
  ELSE Returned(TextNode(StringOf(value)), "string")

(* switch (column.type) { ... }: the built-in formatting of lines 58-238,  *)
(* by declared type, and in the default case by the shape of the value     *)
formatByType(value, col) ==
  CASE col.type = "date" ->
         Returned(DateNode(toLocaleDateString(StringOf(value))), "date")
    [] col.type = "url" -> Returned(LinkNode(StringOf(value)), "url")
    [] col.type = "select" -> Returned(FormatSelect(value, col), "select")
    [] col.type = "image" -> Returned(FormatImage(value), "image")
    [] col.type = "textarea" ->
         Returned(HtmlNode(replaceNewlines(StringOf(value))), "textarea")
    [] OTHER -> formatByShape(value)

(* mutant: the custom render function is consulted before the null check *)
formatValue_RenderFirst(value, column, item) ==
  IF column = << >> THEN Raised("typeerror")
  ELSE IF column[1].render # "absent" THEN ApplyRender(column[1].render, value, item)
  ELSE IF IsNullish(value) THEN Returned(NotProvided, "nullish")
  ELSE formatByType(value, column[1])

(* mutant: a declared type wins over the custom render function *)
formatValue_TypeFirst(value, column, item) ==
  IF IsNullish(value) THEN Returned(NotProvided, "nullish")
  ELSE IF column = << >> THEN Raised("typeerror")
  ELSE IF column[1].type # "default" THEN formatByType(value, column[1])
  ELSE IF column[1].render # "absent" THEN ApplyRender(column[1].render, value, item)
  ELSE formatByType(value, column[1])

(* formatValue(value, column) in the closure of the record `item`.         *)
(* `column` is a sequence of at most one ColumnConfig: the empty sequence  *)
(* is the undefined that columns[0] gives for an empty column list, and    *)
(* reading its `render` property raises a TypeError.                       *)
formatValue(value, column, item) ==
  IF IsNullish(value) THEN Returned(NotProvided, "nullish")
  ELSE IF column = << >> THEN Raised("typeerror")
  ELSE IF column[1].render # "absent" THEN ApplyRender(column[1].render, value, item)
  ELSE formatByType(value, column[1])

(* ------------------------------------------------------------------ *)
(* Field grouper                                                      *)
(* ------------------------------------------------------------------ *)
(* Array.prototype.includes on a list of keys or of columns.  The buckets  *)
(* are filters of `columns` by a predicate on the column alone, so a       *)
(* column object is in a bucket exactly when an equal column is.           *)
InList(list, x) == \E i \in 1..Len(list) : list[i] = x

(* mutant: "email" is not one of the basic names *)
BasicNames_NoEmail == <<s_title, s_subtitle, s_name, s_phone>>

BasicNames == <<s_title, s_subtitle, s_name, s_email, s_phone>>

(* mutant: "name" is a meta name as well as a basic name *)
MetaNames_WithName == <<s_createdAt, s_updatedAt, s_author, s_views, s_priority, s_status, s_name>>

MetaNames == <<s_createdAt, s_updatedAt, s_author, s_views, s_priority, s_status>>

basicFields(cols) == SelectSeq(cols, LAMBDA col : InList(BasicNames, col.key))

mediaFields(cols) ==
  SelectSeq(cols, LAMBDA col : col.type = "image" \/ includes(col.key, s_image))

metaFields(cols) == SelectSeq(cols, LAMBDA col : InList(MetaNames, col.key))

(* mutant: the meta bucket is not excluded from `other` *)
otherFields_NoMeta(cols) ==
  SelectSeq(cols, LAMBDA col :
    /\ ~InList(basicFields(cols), col)
    /\ ~InList(mediaFields(cols), col))

otherFields(cols) ==
  SelectSeq(cols, LAMBDA col :
    /\ ~InList(basicFields(cols), col)
    /\ ~InList(mediaFields(cols), col)
    /\ ~InList(metaFields(cols), col))

(* ------------------------------------------------------------------ *)
(* Modal presenter                                                    *)
(* ------------------------------------------------------------------ *)
(* renderFieldSection: nothing for an empty field list, else one section   *)
(* with one row (label, formatted value) per field, in list order          *)
(* mutant: the rows of a section are laid out last column first *)
renderFieldSection_Reversed(sectionTitle, fields, item) ==
  IF Len(fields) = 0 THEN << >>
  ELSE << [kind |-> "section", title |-> sectionTitle,
           rows |-> [i \in 1..Len(fields) |->
                       LET f == fields[Len(fields) + 1 - i]
                       IN [key |-> f.key,
                           value |-> formatValue(Get(item, f.key), <<f>>, item)]]] >>

renderFieldSection(sectionTitle, fields, item) ==
  IF Len(fields) = 0 THEN << >>
  ELSE << [kind |-> "section", title |-> sectionTitle,
           rows |-> [i \in 1..Len(fields) |->
                       [key |-> fields[i].key,
                        value |-> formatValue(Get(item, fields[i].key), <<fields[i]>>, item)]]] >>

SeparatorNode == [kind |-> "separator", title |-> "", rows |-> << >>]

SeparatorIf(b) == IF b THEN <<SeparatorNode>> ELSE << >>

(* mutant: the first separator forgets the meta section *)
Body_NoMetaSeparator(cols, item) ==
  LET basic == basicFields(cols)
      media == mediaFields(cols)
      other == otherFields(cols)
      meta == metaFields(cols)
  IN renderFieldSection("Basic Information", basic, item)
     \o SeparatorIf(Len(basic) > 0 /\ (Len(media) > 0 \/ Len(other) > 0))
     \o renderFieldSection("Media", media, item)
     \o SeparatorIf(Len(media) > 0 /\ (Len(other) > 0 \/ Len(meta) > 0))
     \o renderFieldSection("Additional Information", other, item)
     \o SeparatorIf(Len(other) > 0 /\ Len(meta) > 0)
     \o renderFieldSection("Meta Information", meta, item)

(* the children of the body <div>, in source order *)
Body(cols, item) ==
  LET basic == basicFields(cols)
      media == mediaFields(cols)
      other == otherFields(cols)
      meta == metaFields(cols)
  IN renderFieldSection("Basic Information", basic, item)
     \o SeparatorIf(Len(basic) > 0 /\ (Len(media) > 0 \/ Len(other) > 0 \/ Len(meta) > 0))
     \o renderFieldSection("Media", media, item)
     \o SeparatorIf(Len(media) > 0 /\ (Len(other) > 0 \/ Len(meta) > 0))
     \o renderFieldSection("Additional Information", other, item)
     \o SeparatorIf(Len(other) > 0 /\ Len(meta) > 0)
     \o renderFieldSection("Meta Information", meta, item)

(* columns[0]: the empty sequence stands for undefined *)
FirstColumn(cols) == IF Len(cols) = 0 THEN << >> ELSE <<cols[1]>>

(* item[columns[0]?.key]: an undefined key is the property name "undefined" *)
FirstColumnValue(cols, item) ==
  Get(item, IF Len(cols) = 0 THEN s_undefined ELSE cols[1].key)

StringNode(s) == [kind |-> "string", text |-> s]

s_Details == <<"D","e","t","a","i","l","s">>

(* mutant: the first column is formatted even when a title is given *)
Title_FormatFirst(title, cols, item) ==
  LET r == formatValue(FirstColumnValue(cols, item), FirstColumn(cols), item)
  IN IF r.outcome = "throw"
     THEN [outcome |-> "throw", node |-> NullNode, formatted |-> TRUE, result |-> r]
     ELSE IF NodeTruthy(r.node)
     THEN [outcome |-> "node", node |-> r.node, formatted |-> TRUE, result |-> r]
     ELSE IF OptTruthy(title)
     THEN [outcome |-> "node", node |-> StringNode(title.str), formatted |-> TRUE,
           result |-> r]
     ELSE [outcome |-> "node", node |-> StringNode(s_Details), formatted |-> TRUE,
           result |-> r]

(* title || formatValue(item[columns[0]?.key], columns[0]) || "Details"    *)
(* `formatted` tells whether formatValue was called, `result` what it gave *)
Title(title, cols, item) ==
  IF OptTruthy(title)
  THEN [outcome |-> "node", node |-> StringNode(title.str), formatted |-> FALSE,
        result |-> Returned(NullNode, "none")]
  ELSE LET r == formatValue(FirstColumnValue(cols, item), FirstColumn(cols), item)
       IN IF r.outcome = "throw"
          THEN [outcome |-> "throw", node |-> NullNode, formatted |-> TRUE, result |-> r]
          ELSE IF NodeTruthy(r.node)
          THEN [outcome |-> "node", node |-> r.node, formatted |-> TRUE, result |-> r]
          ELSE [outcome |-> "node", node |-> StringNode(s_Details), formatted |-> TRUE,
                result |-> r]

(* mutant: a boolean subtitle is shown too *)
Subtitle_Boolean(item) ==
  LET v == Get(item, s_subtitle)
  IN [shown |-> v.shape \in {"string", "number", "boolean"}, value |-> v]

(* the DialogDescription: shown for a string or a number subtitle *)
Subtitle(item) ==
  LET v == Get(item, s_subtitle)
  IN [shown |-> v.shape \in {"string", "number"}, value |-> v]

(* ActionConfig: condition is "absent" or the name of the caller's predicate *)
Action(k, c) == [key |-> k, condition |-> c]

(* action.condition(item) for the predicate of the model,                  *)
(* (r) => r.status === "active"                                            *)
EvalCondition(condition, item) == Get(item, s_status) = Scalar(Str(s_active))

(* mutant: the condition of an action is not evaluated *)
VisibleActions_NoFilter(acts, item) == acts

(* actions.filter((action) => !action.condition || action.condition(item)) *)
VisibleActions(acts, item) ==
  SelectSeq(acts, LAMBDA a : a.condition = "absent" \/ EvalCondition(a.condition, item))

(* the action bar: the buttons rendered, in order; none for no actions *)
ActionBar(acts, item) == IF Len(acts) > 0 THEN VisibleActions(acts, item) ELSE << >>

(* some formatValue call of a section raised *)
BodyThrows(body) ==
  \E i \in 1..Len(body) : \E j \in 1..Len(body[i].rows) :
    body[i].rows[j].value.outcome = "throw"

(* One evaluation of the component function: the element tree, or "throw"  *)
(* when an expression of the tree raised.                                  *)
Render(title, cols, item, acts) ==
  LET t == Title(title, cols, item)
      b == Body(cols, item)
  IN [outcome |-> IF t.outcome = "throw" \/ BodyThrows(b) THEN "throw" ELSE "rendered",
      title |-> t,
      subtitle |-> Subtitle(item),
      basic |-> basicFields(cols),
      media |-> mediaFields(cols),
      other |-> otherFields(cols),
      meta |-> metaFields(cols),
      body |-> b,
      actionBar |-> ActionBar(acts, item)]

(* ------------------------------------------------------------------ *)
(* Inputs                                                             *)
(* ------------------------------------------------------------------ *)
RECURSIVE SeqsUpTo(_, _)
SeqsUpTo(S, n) ==
  IF n = 0 THEN { << >> }
  ELSE LET shorter == SeqsUpTo(S, n - 1)
       IN shorter \cup { Append(q, x) : q \in { r \in shorter : Len(r) = n - 1 }, x \in S }

(* a basic column, a basic and a meta column of type image, a column whose *)
(* key contains "image", an untyped column and a meta column               *)
ColumnPool ==
  { Column(s_email, "default", "absent"),
    Column(s_name, "image", "absent"),
    Column(s_status, "image", "absent"),
    Column(s_profileImage, "default", "renderNull"),
    Column(s_tags, "default", "renderNode"),
    Column(s_createdAt, "date", "absent") }

ColumnLists == SeqsUpTo(ColumnPool, MaxCols)

ModalColumnLists == SeqsUpTo(ColumnPool, MaxModalCols)

(* column lists with and without a column for the record's subtitle *)
HeaderColumnLists ==
  SeqsUpTo({ Column(s_subtitle, "default", "absent"), Column(s_email, "default", "absent") },
           MaxModalCols)

ItemEmpty == << >>

ItemWidget ==
  << Entry(s_email, Scalar(Str(s_Widget))),
     Entry(s_subtitle, Scalar(Num(42))),
     Entry(s_status, Scalar(Str(s_active))),
     Entry(s_name, Scalar(Str(s_png))),
     Entry(s_profileImage, Scalar(Str(s_url))),
     Entry(s_tags, Arr(<<Str(<<"a">>), Str(<<"b">>)>>)),
     Entry(s_createdAt, Scalar(Str(s_isoDate))) >>

ItemOdd ==
  << Entry(s_undefined, Scalar(Str(s_Widget))),
     Entry(s_email, Scalar(Null)),
     Entry(s_subtitle, Arr(<<Str(<<"s">>)>>)),
     Entry(s_status, Scalar(Str(s_inactive))),
     Entry(s_name, Arr(<<Str(s_png), Str(s_url)>>)),
     Entry(s_profileImage, Scalar(Str(<< >>))),
     Entry(s_tags, Arr(<< >>)),
     Entry(s_createdAt, Scalar(Str(s_Widget))) >>

ItemActive ==
  << Entry(s_email, Scalar(Num(1234))),
     Entry(s_subtitle, Scalar(Str(s_Widget))),
     Entry(s_status, Scalar(Str(s_active))),
     Entry(s_tags, Obj(<<Entry(s_url, Str(s_url)), Entry(s_name, Num(0))>>)) >>

(* records whose subtitle is a boolean and a mapping *)
ItemFlagged == << Entry(s_subtitle, Scalar(Bool(TRUE))) >>

ItemNested == << Entry(s_subtitle, Obj(<<Entry(s_name, Str(s_Widget))>>)) >>

Items == {ItemEmpty, ItemWidget, ItemOdd, ItemActive, ItemFlagged, ItemNested}

Titles == {Absent, Present(<< >>), Present(s_Widget)}

ActionPool == {Action("edit", "absent"), Action("archive", "statusIsActive")}

ActionLists == SeqsUpTo(ActionPool, MaxActions)

(* ------------------------------------------------------------------ *)
(* State                                                              *)
(* ------------------------------------------------------------------ *)
VARIABLES
  isOpen,    \* prop isOpen, owned by the caller
  item,      \* prop item
  columns,   \* prop columns
  title,     \* prop title
  actions,   \* prop actions
  view,      \* what the last evaluation of the component produced
  event,     \* the last event: its type, the action clicked, how its callback ended
  calls,     \* the caller's callbacks invoked by the last event handler, in order
  fvalue,    \* formatter alone: the value passed
  fcolumn,   \* formatter alone: the column passed (at most one)
  fresult    \* formatter alone: the result of the call, once made

VARIABLES
  form,      \* the authentication form on the page: "login", "signup" or "forgot"
  mounted,   \* the form is on the page (no redirect has navigated away)
  isLoading, \* the form's isLoading state
  timers,    \* onSubmit calls waiting for their simulated delay
  redirects, \* redirect timers scheduled and not yet fired
  submits,   \* submissions started so far
  log        \* the effects of the form so far, in order

VARIABLES
  password,        \* the password field of the sign-up form
  passwordStrength \* getPasswordStrength(password) of the last render

strengthVars == <<password, passwordStrength>>

(* ------------------------------------------------------------------ *)
(* getPasswordStrength of the sign-up form                            *)
(* ------------------------------------------------------------------ *)
LowerCase == {"a","b","c","d","e","f","g","h","i","j","k","l","m",
              "n","o","p","q","r","s","t","u","v","w","x","y","z"}

UpperCase == {"A","B","C","D","E","F","G","H","I","J","K","L","M",
              "N","O","P","Q","R","S","T","U","V","W","X","Y","Z"}

Digits == {"0","1","2","3","4","5","6","7","8","9"}

(* RegExp.prototype.test for a one-character class: some character of the  *)
(* string is in the class                                                  *)
TestClass(class, s) == \E i \in 1..Len(s) : s[i] \in class

(* /[^a-zA-Z\d]/.test(s) *)
TestOutside(s) == \E i \in 1..Len(s) : s[i] \notin (LowerCase \cup UpperCase \cup Digits)

Labels == <<"Very Weak", "Weak", "Fair", "Good", "Strong">>

Colors == <<"bg-red-500", "bg-orange-500", "bg-yellow-500", "bg-blue-500", "bg-green-500">>

(* arr[i] || "" for a zero-based index: undefined outside the array *)
ElementOrEmpty(arr, i) == IF i \in 0..(Len(arr) - 1) THEN arr[i + 1] ELSE ""

(* mutant: the criterion of a character outside a-zA-Z0-9 is left out *)
getPasswordStrength_NoSpecial(pw) ==
  IF Len(pw) = 0 THEN [strength |-> 0, label |-> "", color |-> ""]
  ELSE LET s1 == IF Len(pw) >= 8 THEN 1 ELSE 0
           s2 == IF TestClass(LowerCase, pw) THEN s1 + 1 ELSE s1
           s3 == IF TestClass(UpperCase, pw) THEN s2 + 1 ELSE s2
           s4 == IF TestClass(Digits, pw) THEN s3 + 1 ELSE s3
       IN [strength |-> s4,
           label |-> ElementOrEmpty(Labels, s4 - 1),
           color |-> ElementOrEmpty(Colors, s4 - 1)]

getPasswordStrength(pw) ==
  IF Len(pw) = 0 THEN [strength |-> 0, label |-> "", color |-> ""]
  ELSE LET s1 == IF Len(pw) >= 8 THEN 1 ELSE 0
           s2 == IF TestClass(LowerCase, pw) THEN s1 + 1 ELSE s1
           s3 == IF TestClass(UpperCase, pw) THEN s2 + 1 ELSE s2
           s4 == IF TestClass(Digits, pw) THEN s3 + 1 ELSE s3
           s5 == IF TestOutside(pw) THEN s4 + 1 ELSE s4
       IN [strength |-> s5,
           label |-> ElementOrEmpty(Labels, s5 - 1),
           color |-> ElementOrEmpty(Colors, s5 - 1)]

(* the sign-up form as first rendered: the password field is empty *)
StrengthIdle ==
  /\ password = << >>
  /\ passwordStrength = getPasswordStrength(<< >>)

modalVars == <<isOpen, item, columns, title, actions, view, event, calls>>

formatVars == <<fvalue, fcolumn, fresult>>

authVars == <<form, mounted, isLoading, timers, redirects, submits, log>>

vars == <<isOpen, item, columns, title, actions, view, event, calls, fvalue, fcolumn, fresult,
          form, mounted, isLoading, timers, redirects, submits, log,
          password, passwordStrength>>

(* the authentication form as first rendered: useState(false) *)
AuthIdle ==
  /\ mounted = TRUE
  /\ isLoading = FALSE
  /\ timers = 0
  /\ redirects = 0
  /\ submits = 0
  /\ log = << >>

NoAction == Action("", "absent")

Event(type, a, outcome) == [type |-> type, action |-> a, callback |-> outcome]

Call(fn, key, arg) == [fn |-> fn, key |-> key, arg |-> arg]

Pending == [outcome |-> "pending", node |-> NullNode, branch |-> "none", renderCalled |-> FALSE]

FormatIdle ==
  /\ fvalue = Scalar(Undefined)
  /\ fcolumn = << >>
  /\ fresult = Pending

(* The modal as mounted by a caller *)
Mounted ==
  /\ view = Render(title, columns, item, actions)
  /\ event = Event("mount", NoAction, "none")
  /\ calls = << >>

Init ==
  /\ isOpen \in BOOLEAN
  /\ item \in Items
  /\ columns \in ModalColumnLists
  /\ title \in Titles
  /\ actions \in ActionLists
  /\ Mounted
  /\ FormatIdle
  /\ form = "login"
  /\ AuthIdle
  /\ StrengthIdle

(* The modal mounted over every column list, with a fixed title and action list *)
InitGroup ==
  /\ isOpen = TRUE
  /\ item \in Items
  /\ columns \in ColumnLists
  /\ title = Absent
  /\ actions = <<Action("edit", "absent"), Action("archive", "statusIsActive")>>
  /\ Mounted
  /\ FormatIdle
  /\ form = "login"
  /\ AuthIdle
  /\ StrengthIdle

(* The modal mounted over the header column lists, with a fixed action list *)
InitHeader ==
  /\ isOpen \in BOOLEAN
  /\ item \in Items
  /\ columns \in HeaderColumnLists
  /\ title \in Titles
  /\ actions = <<Action("edit", "absent"), Action("archive", "statusIsActive")>>
  /\ Mounted
  /\ FormatIdle
  /\ form = "login"
  /\ AuthIdle
  /\ StrengthIdle

(* The onClick of a rendered action button:                                *)
(*   action.onClick(item); onClose();                                      *)
(* The caller's onClick returns or throws; a throw leaves the handler.     *)
(* The caller's onClose decides about its own isOpen flag.                 *)
(* mutant: the handler does not call onClose *)
ButtonHandler_NoClose(a, outcome) == <<Call("onClick", a.key, item)>>

ButtonHandler(a, outcome) ==
  <<Call("onClick", a.key, item)>>
    \o (IF outcome = "returns" THEN <<Call("onClose", "", << >>)>> ELSE << >>)

ClickAction ==
  /\ isOpen
  /\ view.outcome = "rendered"
  /\ \E i \in 1..Len(view.actionBar) : \E outcome \in {"returns", "throws"} :
       /\ calls' = ButtonHandler(view.actionBar[i], outcome)
       /\ event' = Event("click", view.actionBar[i], outcome)
       /\ isOpen' \in (IF outcome = "returns" THEN {FALSE, isOpen} ELSE {isOpen})
  /\ UNCHANGED <<item, columns, title, actions, view>>
  /\ UNCHANGED <<formatVars, authVars, strengthVars>>

(* <Dialog open={isOpen} onOpenChange={onClose}>: the dialog primitive     *)
(* reports an open-state change and the modal forwards it to onClose       *)
OpenChange ==
  /\ isOpen
  /\ view.outcome = "rendered"
  /\ calls' = <<Call("onClose", "", << >>)>>
  /\ event' = Event("openChange", NoAction, "none")
  /\ isOpen' \in {FALSE, isOpen}
  /\ UNCHANGED <<item, columns, title, actions, view>>
  /\ UNCHANGED <<formatVars, authVars, strengthVars>>

(* the caller shows the modal again *)
CallerOpen ==
  /\ ~isOpen
  /\ isOpen' = TRUE
  /\ view' = Render(title, columns, item, actions)
  /\ event' = Event("open", NoAction, "none")
  /\ calls' = << >>
  /\ UNCHANGED <<item, columns, title, actions>>
  /\ UNCHANGED <<formatVars, authVars, strengthVars>>

(* the caller passes another record *)
CallerSetItem ==
  /\ \E it \in Items :
       /\ it # item
       /\ item' = it
       /\ view' = Render(title, columns, it, actions)
  /\ event' = Event("setItem", NoAction, "none")
  /\ calls' = << >>
  /\ UNCHANGED <<isOpen, columns, title, actions>>
  /\ UNCHANGED <<formatVars, authVars, strengthVars>>

Next ==
  \/ ClickAction
  \/ OpenChange
  \/ CallerOpen
  \/ CallerSetItem

Spec == Init /\ [][Next]_vars

SpecGroup == InitGroup /\ [][Next]_vars

SpecHeader == InitHeader /\ [][Next]_vars

(* ------------------------------------------------------------------ *)
(* The formatter alone, over values and columns                       *)
(* ------------------------------------------------------------------ *)
FormatValues ==
  { Scalar(Null), Scalar(Undefined),
    Scalar(Str(<< >>)), Scalar(Str(s_blank)), Scalar(Str(s_Widget)), Scalar(Str(s_url)),
    Scalar(Str(s_isoDate)), Scalar(Str(s_active)), Scalar(Str(s_twoLines)),
    Scalar(Num(0)), Scalar(Num(42)), Scalar(Num(1234)),
    Scalar(Bool(TRUE)), Scalar(Bool(FALSE)),
    Arr(<< >>), Arr(<<Str(s_png)>>), Arr(<<Str(<<"x">>), Str(<<"y">>)>>),
    Arr(<<Num(1), Null, Bool(TRUE)>>),
    Obj(<< >>),
    Obj(<<Entry(s_url, Str(s_url)), Entry(s_name, Str(s_Widget)), Entry(s_views, Num(0))>>),
    Obj(<<Entry(s_name, Str(<< >>)), Entry(s_status, Null), Entry(s_views, Bool(FALSE))>>) }

StatusOptions ==
  << Option(s_active, s_Yes, Present(<<"#","0","f","0">>), Present(<<"*">>)),
     Option(s_inactive, s_No, Absent, Absent),
     Option(s_active, s_Widget, Absent, Absent),
     Option(<<"4","2">>, s_name, Present(<< >>), Absent) >>

ColumnTypes == {"default", "date", "url", "select", "image", "textarea"}

Renders == {"absent", "renderNode", "renderNull", "renderThrow"}

FormatColumns ==
  { Column(s_notes, t, r) : t \in ColumnTypes, r \in Renders }
    \cup { SelectColumn(s_status, StatusOptions), SelectColumn(s_status, << >>) }

FormatItem == ItemWidget

InitFormat ==
  /\ isOpen = FALSE
  /\ item = FormatItem
  /\ columns = << >>
  /\ title = Absent
  /\ actions = << >>
  /\ Mounted
  /\ fvalue \in FormatValues
  /\ fcolumn \in { << >> } \cup { <<c>> : c \in FormatColumns }
  /\ fresult = Pending
  /\ form = "login"
  /\ AuthIdle
  /\ StrengthIdle

(* one call formatValue(value, column) *)
Format ==
  /\ fresult.outcome = "pending"
  /\ fresult' = formatValue(fvalue, fcolumn, item)
  /\ UNCHANGED <<fvalue, fcolumn>>
  /\ UNCHANGED <<modalVars, authVars, strengthVars>>

NextFormat == Format

SpecFormat == InitFormat /\ [][NextFormat]_vars

(* ------------------------------------------------------------------ *)
(* The authentication forms: LoginForm, SignUpForm, ForgetPassword    *)
(* ------------------------------------------------------------------ *)
Forms == {"login", "signup", "forgot"}

InitAuth ==
  /\ isOpen = FALSE
  /\ item = ItemEmpty
  /\ columns = << >>
  /\ title = Absent
  /\ actions = << >>
  /\ Mounted
  /\ FormatIdle
  /\ form \in Forms
  /\ AuthIdle
  /\ StrengthIdle

(* mutant: the submit button is never disabled *)
SubmitEnabled_Always == mounted

(* the submit button, disabled={isLoading || isSubmitting}; isSubmitting   *)
(* is the form library's own flag and can only disable more                *)
SubmitEnabled == mounted /\ ~isLoading

(* onSubmit up to its await: setIsLoading(true), then the delay is pending *)
Submit ==
  /\ SubmitEnabled
  /\ submits < MaxSubmits
  /\ submits' = submits + 1
  /\ isLoading' = TRUE
  /\ timers' = timers + 1
  /\ log' = Append(log, "loading.true")
  /\ UNCHANGED <<form, mounted, redirects>>
  /\ UNCHANGED <<modalVars, formatVars, strengthVars>>

(* how the statements after the delay can end: all return; toast.success   *)
(* throws; in ForgetPassword localStorage.setItem throws                   *)
Outcomes(f) == {"ok", "toastThrows"} \cup (IF f = "forgot" THEN {"storageThrows"} ELSE { })

(* mutant: the redirect is scheduled before the toast and the storage *)
AfterDelay_ScheduleFirst(f, outcome) ==
  CASE outcome = "ok" ->
         <<"schedule.redirect", "toast.success">>
           \o (IF f = "forgot" THEN <<"store.resetEmail", "store.otpSentTime">> ELSE << >>)
           \o <<"loading.false">>
    [] outcome = "toastThrows" -> <<"toast.error", "loading.false">>
    [] outcome = "storageThrows" -> <<"toast.success", "toast.error", "loading.false">>

(* the effects of onSubmit after its delay, through catch and finally *)
AfterDelay(f, outcome) ==
  CASE outcome = "ok" ->
         <<"toast.success">>
           \o (IF f = "forgot" THEN <<"store.resetEmail", "store.otpSentTime">> ELSE << >>)
           \o <<"schedule.redirect", "loading.false">>
    [] outcome = "toastThrows" -> <<"toast.error", "loading.false">>
    [] outcome = "storageThrows" -> <<"toast.success", "toast.error", "loading.false">>

(* mutant: setIsLoading(false) is the last statement of try, not a finally *)
DelayDone_NoFinally ==
  /\ timers > 0
  /\ \E outcome \in Outcomes(form) :
       /\ log' = log \o AfterDelay(form, outcome)
       /\ redirects' = IF outcome = "ok" THEN redirects + 1 ELSE redirects
       /\ isLoading' = (outcome # "ok" /\ isLoading)
  /\ timers' = timers - 1
  /\ UNCHANGED <<form, mounted, submits>>
  /\ UNCHANGED <<modalVars, formatVars, strengthVars>>

(* the simulated delay of one onSubmit call completes and the rest of the  *)
(* function runs: try body, catch on a throw, finally setIsLoading(false)  *)
DelayDone ==
  /\ timers > 0
  /\ \E outcome \in Outcomes(form) :
       /\ log' = log \o AfterDelay(form, outcome)
       /\ redirects' = IF outcome = "ok" THEN redirects + 1 ELSE redirects
  /\ timers' = timers - 1
  /\ isLoading' = FALSE
  /\ UNCHANGED <<form, mounted, submits>>
  /\ UNCHANGED <<modalVars, formatVars, strengthVars>>

(* a redirect timer fires: router.push(...) leaves the page *)
Redirect ==
  /\ redirects > 0
  /\ redirects' = redirects - 1
  /\ mounted' = FALSE
  /\ log' = Append(log, "router.push")
  /\ UNCHANGED <<form, isLoading, timers, submits>>
  /\ UNCHANGED <<modalVars, formatVars, strengthVars>>

NextAuth ==
  \/ Submit
  \/ DelayDone
  \/ Redirect

SpecAuth == InitAuth /\ [][NextAuth]_vars

(* the timers of the page fire: a pending delay completes and a scheduled  *)
(* redirect runs                                                           *)
SpecAuthLive == SpecAuth /\ WF_vars(DelayDone) /\ WF_vars(Redirect)

(* ------------------------------------------------------------------ *)
(* The password field of the sign-up form and its strength meter      *)
(* ------------------------------------------------------------------ *)
(* a lower-case letter, an upper-case letter, a digit and a character      *)
(* outside a-zA-Z0-9                                                       *)
PasswordChars == {"a", "Z", "7", "#"}

InitStrength ==
  /\ isOpen = FALSE
  /\ item = ItemEmpty
  /\ columns = << >>
  /\ title = Absent
  /\ actions = << >>
  /\ Mounted
  /\ FormatIdle
  /\ form = "signup"
  /\ AuthIdle
  /\ StrengthIdle

(* the user types a character: the field changes and the form renders *)
TypeChar ==
  /\ Len(password) < MaxPassword
  /\ \E c \in PasswordChars :
       /\ password' = Append(password, c)
       /\ passwordStrength' = getPasswordStrength(Append(password, c))
  /\ UNCHANGED <<modalVars, formatVars, authVars>>

(* the user deletes the last character *)
DeleteChar ==
  /\ Len(password) > 0
  /\ password' = SubSeq(password, 1, Len(password) - 1)
  /\ passwordStrength' = getPasswordStrength(SubSeq(password, 1, Len(password) - 1))
  /\ UNCHANGED <<modalVars, formatVars, authVars>>

NextStrength ==
  \/ TypeChar
  \/ DeleteChar

SpecStrength == InitStrength /\ [][NextStrength]_vars

(* ------------------------------------------------------------------ *)
(* Properties                                                         *)
(* ------------------------------------------------------------------ *)
Buckets == {"basic", "media", "meta", "other"}

(* the buckets of the rendered view that hold the column *)
BucketsOf(col) == { b \in Buckets : InList(view[b], col) }

(* C1: the grouping is non-overlapping: every column of the list is in at  *)
(* most one of basic, media, meta, other.                                  *)
C1_NonOverlapping ==
  \A i \in 1..Len(columns) : Cardinality(BucketsOf(columns[i])) <= 1

(* C2: the grouping is exhaustive: every column of the list is in at least *)
(* one bucket, and `other` holds exactly the columns of the list that are  *)
(* in none of basic, media and meta (and nothing else).                    *)
C2_Exhaustive ==
  /\ \A i \in 1..Len(columns) : BucketsOf(columns[i]) # {}
  /\ \A i \in 1..Len(columns) :
       InList(view.other, columns[i])
         <=> BucketsOf(columns[i]) \cap {"basic", "media", "meta"} = {}
  /\ \A j \in 1..Len(view.other) : InList(columns, view.other[j])
  /\ Len(view.other)
       = Cardinality({ i \in 1..Len(columns) :
                         BucketsOf(columns[i]) \cap {"basic", "media", "meta"} = {} })

C2_Witness ==
  /\ Len(columns) = MaxCols
  /\ Len(view.other) > 0
  /\ Len(view.other) < Len(columns)
  /\ Len(view.meta) > 0

(* C3: every invocation of a rendered action calls the action's callback   *)
(* with the current record and then the close callback exactly once, in    *)
(* that order, whatever the action's callback does.                        *)
C3_CloseAlways ==
  event.type = "click" =>
    calls = <<Call("onClick", event.action.key, item), Call("onClose", "", << >>)>>

(* C4: in a rendered view an action is in the action bar exactly when its  *)
(* condition is absent or true of the current record, and the callback an  *)
(* action click invokes is never one whose condition is false of the       *)
(* record.                                                                 *)
ConditionHolds(a) == a.condition = "absent" \/ EvalCondition(a.condition, item)

C4_ActionFilter ==
  /\ view.outcome = "rendered" =>
       \A i \in 1..Len(actions) :
         InList(view.actionBar, actions[i]) <=> ConditionHolds(actions[i])
  /\ \A j \in 1..Len(view.actionBar) : InList(actions, view.actionBar[j])
  /\ \A k \in 1..Len(calls) :
       calls[k].fn = "onClick" =>
         \E i \in 1..Len(actions) :
           /\ actions[i].key = calls[k].key
           /\ actions[i] = event.action
           /\ ConditionHolds(actions[i])

C4_Witness ==
  /\ event.type = "click"
  /\ \E i \in 1..Len(actions) : ~ConditionHolds(actions[i])
  /\ Len(view.actionBar) > 0

(* C5: a call of the formatter with a null or undefined value returns the  *)
(* "Not provided" sentinel from the null check, for every column, without  *)
(* calling the custom render function or entering the type dispatch.       *)
C5_NullishFirst ==
  (fresult.outcome # "pending" /\ IsNullish(fvalue)) =>
    /\ fresult.outcome = "node"
    /\ fresult.node = NotProvided
    /\ fresult.branch = "nullish"
    /\ ~fresult.renderCalled

C5_Witness ==
  /\ fresult.outcome = "node"
  /\ IsNullish(fvalue)
  /\ fcolumn # << >>
  /\ fcolumn[1].render # "absent"
  /\ fcolumn[1].type = "image"

(* C6: no formatValue call the modal makes raises: neither the title call  *)
(* with the first column (also for an empty column list) nor a call for a  *)
(* field of a section.                                                     *)
C6_NeverThrows ==
  /\ view.title.outcome # "throw"
  /\ ~BodyThrows(view.body)

(* C7: without a title argument, and with no value of the record under the *)
(* first column's key (or with no column at all), the dialog title is the  *)
(* literal "Details".                                                      *)
NoFirstValue ==
  \/ Len(columns) = 0
  \/ Get(item, columns[1].key).shape = "undefined"

C7_DetailsFallback ==
  (~title.present /\ NoFirstValue /\ view.title.outcome = "node") =>
    view.title.node = StringNode(s_Details)

(* C8 as stated: a given title is the dialog title and the record is not   *)
(* consulted; with no title given and a value under the first column's     *)
(* key, the title is that value formatted by the first column.             *)
HasFirstValue ==
  /\ Len(columns) > 0
  /\ ~IsNullish(Get(item, columns[1].key))

FirstFormatted == formatValue(Get(item, columns[1].key), <<columns[1]>>, item)

C8_TitleResolution ==
  /\ title.present =>
       /\ view.title.node = StringNode(title.str)
       /\ ~view.title.formatted
  /\ (~title.present /\ HasFirstValue) =>
       /\ view.title.formatted
       /\ view.title.node = FirstFormatted.node

(* C8 (amended): a non-empty title is the dialog title and the record is   *)
(* not consulted; with the title absent or empty and a value under the     *)
(* first column's key, the title is that value formatted by the first      *)
(* column, or "Details" when the custom render returned an empty node.     *)
C8_TitleResolutionAmended ==
  /\ OptTruthy(title) =>
       /\ view.title.outcome = "node"
       /\ view.title.node = StringNode(title.str)
       /\ ~view.title.formatted
  /\ (~OptTruthy(title) /\ HasFirstValue) =>
       /\ view.title.formatted
       /\ view.title.outcome = FirstFormatted.outcome
       /\ view.title.outcome = "node" =>
            view.title.node = IF NodeTruthy(FirstFormatted.node)
                              THEN FirstFormatted.node
                              ELSE StringNode(s_Details)

C8_Witness ==
  /\ title = Present(<< >>)
  /\ HasFirstValue
  /\ view.title.formatted
  /\ view.title.node.kind = "date"

(* C9: a section is in the body exactly when its bucket has a column; a    *)
(* separator stands only between two sections and every two consecutive    *)
(* sections have one between them, so the separators number one less than  *)
(* the shown sections (none when nothing is shown).                        *)
SectionShown(t) == \E i \in 1..Len(view.body) :
                     view.body[i].kind = "section" /\ view.body[i].title = t

NonEmptyBuckets == { b \in Buckets : Len(view[b]) > 0 }

SeparatorCount == Cardinality({ i \in 1..Len(view.body) : view.body[i].kind = "separator" })

SectionCount == Cardinality({ i \in 1..Len(view.body) : view.body[i].kind = "section" })

C9_Separators ==
  /\ SectionShown("Basic Information") <=> Len(view.basic) > 0
  /\ SectionShown("Media") <=> Len(view.media) > 0
  /\ SectionShown("Additional Information") <=> Len(view.other) > 0
  /\ SectionShown("Meta Information") <=> Len(view.meta) > 0
  /\ SectionCount = Cardinality(NonEmptyBuckets)
  /\ SeparatorCount = IF NonEmptyBuckets = {} THEN 0 ELSE Cardinality(NonEmptyBuckets) - 1
  /\ \A i \in 1..Len(view.body) :
       view.body[i].kind = "separator" =>
         /\ 1 < i /\ i < Len(view.body)
         /\ view.body[i - 1].kind = "section"
         /\ view.body[i + 1].kind = "section"
  /\ \A i \in 1..(Len(view.body) - 1) :
       view.body[i].kind = "section" => view.body[i + 1].kind = "separator"

C9_Witness ==
  /\ NonEmptyBuckets = {"basic", "meta"}
  /\ Len(view.body) = 3
  /\ view.body[1].title = "Basic Information"
  /\ view.body[2] = SeparatorNode
  /\ view.body[3].title = "Meta Information"

(* C10: for a non-null value and a column with a custom render function,   *)
(* the formatter's result is exactly what render(value, record) gives, for *)
(* every declared type, and comes from no built-in branch.                 *)
C10_RenderDelegates ==
  (/\ fresult.outcome # "pending"
   /\ ~IsNullish(fvalue)
   /\ fcolumn # << >>
   /\ fcolumn[1].render # "absent") =>
    /\ fresult = ApplyRender(fcolumn[1].render, fvalue, item)
    /\ fresult.branch = "render"
    /\ fresult.renderCalled

C10_Witness ==
  /\ fresult.outcome = "node"
  /\ fresult.node = CustomNode(fvalue, item)
  /\ fcolumn # << >>
  /\ fcolumn[1].type = "select"
  /\ fvalue.shape = "array"

(* the formatter was called with a non-null value and a column of the      *)
(* given type that has no custom render function                           *)
BuiltInCase(type) ==
  /\ fresult.outcome # "pending"
  /\ ~IsNullish(fvalue)
  /\ fcolumn # << >>
  /\ fcolumn[1].type = type
  /\ fcolumn[1].render = "absent"

(* C11: for a select column the output is the secondary badge of the first *)
(* option whose value equals the string form of the value (its label, its  *)
(* colour and icon when it has a non-empty one); with no such option, or   *)
(* no options, it is the outline badge of the string form of the value.    *)
C11_Select ==
  BuiltInCase("select") =>
    LET col == fcolumn[1]
        matches == { i \in 1..Len(col.options) : col.options[i].value = StringOf(fvalue) }
    IN /\ fresult.outcome = "node"
       /\ fresult.node.kind = "badge"
       /\ IF col.hasOptions /\ matches # {}
          THEN LET o == col.options[CHOOSE i \in matches : \A j \in matches : i <= j]
               IN /\ fresult.node.variant = "secondary"
                  /\ fresult.node.text = o.label
                  /\ fresult.node.color
                       = (IF o.color.present /\ o.color.str # << >> THEN o.color ELSE Absent)
                  /\ fresult.node.icon
                       = (IF o.icon.present /\ o.icon.str # << >> THEN o.icon ELSE Absent)
          ELSE /\ fresult.node.variant = "outline"
               /\ fresult.node.text = StringOf(fvalue)
               /\ fresult.node.color = Absent
               /\ fresult.node.icon = Absent

C11_Witness ==
  /\ BuiltInCase("select")
  /\ fvalue = Scalar(Str(s_active))
  /\ fresult.node.variant = "secondary"
  /\ fresult.node.text = s_Yes
  /\ fresult.node.color.present

(* the image grid of an array value: one thumbnail per element, in order *)
IsGridOf(node, elems) ==
  /\ node.kind = "imageGrid"
  /\ Len(node.images) = Len(elems)
  /\ \A i \in 1..Len(elems) :
       /\ node.images[i].kind = "image"
       /\ node.images[i].src = ScalarToString(elems[i])

(* C12 as stated: for an image column a non-empty string gives a single    *)
(* image, a non-empty array a grid of one thumbnail per element in order,  *)
(* and every other value the "No image" sentinel.                          *)
C12_Image ==
  BuiltInCase("image") =>
    /\ fresult.outcome = "node"
    /\ IF fvalue.shape = "string" /\ fvalue.str # << >>
       THEN fresult.node.kind = "image" /\ fresult.node.src = fvalue.str
       ELSE IF fvalue.shape = "array" /\ Len(fvalue.elems) > 0
       THEN IsGridOf(fresult.node, fvalue.elems)
       ELSE fresult.node = NoImage

(* C12 (amended): a string with a character that is not white space gives  *)
(* a single image of that string; a non-empty array a grid of one          *)
(* thumbnail per element in order; every other value, the empty and the    *)
(* white-space-only string included, the "No image" sentinel.              *)
C12_ImageAmended ==
  BuiltInCase("image") =>
    /\ fresult.outcome = "node"
    /\ IF /\ fvalue.shape = "string"
          /\ \E i \in 1..Len(fvalue.str) : fvalue.str[i] \notin {" ", "\n", "\t"}
       THEN fresult.node.kind = "image" /\ fresult.node.src = fvalue.str
       ELSE IF fvalue.shape = "array" /\ Len(fvalue.elems) > 0
       THEN IsGridOf(fresult.node, fvalue.elems)
       ELSE fresult.node = NoImage

C12_Witness ==
  /\ BuiltInCase("image")
  /\ fvalue = Scalar(Str(s_blank))
  /\ fresult.node = NoImage

(* C13 as stated: the grid of an image column with an array of N >= 1      *)
(* elements has the caption "N images".                                    *)
C13_Caption ==
  (BuiltInCase("image") /\ fvalue.shape = "array" /\ Len(fvalue.elems) >= 1) =>
    /\ fresult.node.kind = "imageGrid"
    /\ fresult.node.caption = NatToString(Len(fvalue.elems)) \o s_images

(* C13 (amended): the caption is "N images" for N >= 2 and "1 image" for   *)
(* an array of one element.                                                *)
C13_CaptionAmended ==
  (BuiltInCase("image") /\ fvalue.shape = "array" /\ Len(fvalue.elems) >= 1) =>
    /\ fresult.node.kind = "imageGrid"
    /\ fresult.node.caption
         = IF Len(fvalue.elems) = 1
           THEN <<"1"," ","i","m","a","g","e">>
           ELSE NatToString(Len(fvalue.elems)) \o <<" ","i","m","a","g","e","s">>

C13_Witness ==
  /\ BuiltInCase("image")
  /\ fvalue.shape = "array"
  /\ Len(fvalue.elems) = 1
  /\ fresult.node.caption = <<"1"," ","i","m","a","g","e">>

(* C14: for an untyped column the output comes from exactly one branch,    *)
(* the one of the value's shape (array, object, boolean, number, else      *)
(* string): true gives the "Yes" badge, false the "No" badge, a number its *)
(* numeric text and any other scalar its string form.                      *)
C14_ShapeDispatch ==
  BuiltInCase("default") =>
    /\ fresult.outcome = "node"
    /\ ~fresult.renderCalled
    /\ fresult.branch
         = (CASE fvalue.shape = "array" -> "array"
              [] fvalue.shape = "object" -> "object"
              [] fvalue.shape = "boolean" -> "boolean"
              [] fvalue.shape = "number" -> "number"
              [] OTHER -> "string")
    /\ fvalue.shape = "boolean" =>
         /\ fresult.node.kind = "badge"
         /\ fresult.node.text = (IF fvalue.bool THEN <<"Y","e","s">> ELSE <<"N","o">>)
    /\ fvalue.shape = "number" =>
         /\ fresult.node.kind = "mono"
         /\ fresult.node.text = toLocaleString(fvalue.num)
    /\ fvalue.shape = "string" =>
         /\ fresult.node.kind = "text"
         /\ fresult.node.text = fvalue.str

C14_Witness ==
  /\ BuiltInCase("default")
  /\ fvalue = Scalar(Bool(FALSE))
  /\ fresult.branch = "boolean"
  /\ fresult.node.text = <<"N","o">>

(* C15: for an untyped column and an array value, the empty array gives    *)
(* the "None" sentinel and a non-empty array one tag badge per element, in *)
(* the order of the array, each with the string form of its element.       *)
C15_Tags ==
  (BuiltInCase("default") /\ fvalue.shape = "array") =>
    IF Len(fvalue.elems) = 0
    THEN fresult.node = NoneNode
    ELSE /\ fresult.node.kind = "tags"
         /\ Len(fresult.node.badges) = Len(fvalue.elems)
         /\ \A i \in 1..Len(fvalue.elems) :
              /\ fresult.node.badges[i].kind = "badge"
              /\ fresult.node.badges[i].text = ScalarToString(fvalue.elems[i])

C15_Witness ==
  /\ BuiltInCase("default")
  /\ fvalue = Arr(<<Str(<<"x">>), Str(<<"y">>)>>)
  /\ Len(fresult.node.badges) = 2
  /\ fresult.node.badges[1].text = <<"x">>
  /\ fresult.node.badges[2].text = <<"y">>

(* an entry value that is null, undefined, "", 0 or false *)
IsEmptyValue(v) ==
  \/ v.shape \in {"null", "undefined"}
  \/ v.shape = "string" /\ v.str = << >>
  \/ v.shape = "number" /\ v.num = 0
  \/ v.shape = "boolean" /\ ~v.bool

(* the entries of a mapping whose value is not empty, in entry order *)
RECURSIVE KeptEntries(_)
KeptEntries(es) ==
  IF es = << >> THEN << >>
  ELSE IF IsEmptyValue(Head(es).val) THEN KeptEntries(Tail(es))
  ELSE <<Head(es)>> \o KeptEntries(Tail(es))

(* C16: for an untyped column and a mapping value, the output has one row  *)
(* per entry whose value is not empty, in entry order; a row is a link     *)
(* exactly when its value is a string starting with "http", and shows the  *)
(* string form of the value; with no entry left the output is a sentinel.  *)
C16_Rows ==
  (BuiltInCase("default") /\ fvalue.shape = "object") =>
    LET kept == KeptEntries(fvalue.entries)
    IN IF kept = << >>
       THEN fresult.node.kind = "sentinel"
       ELSE /\ fresult.node.kind = "rows"
            /\ Len(fresult.node.rows) = Len(kept)
            /\ \A i \in 1..Len(kept) :
                 /\ fresult.node.rows[i].key = kept[i].key
                 /\ fresult.node.rows[i].text = ScalarToString(kept[i].val)
                 /\ fresult.node.rows[i].link
                      <=> (/\ kept[i].val.shape = "string"
                           /\ Len(kept[i].val.str) >= 4
                           /\ SubSeq(kept[i].val.str, 1, 4) = <<"h","t","t","p">>)

C16_Witness ==
  /\ BuiltInCase("default")
  /\ fvalue.shape = "object"
  /\ Len(fvalue.entries) = 3
  /\ fresult.node.kind = "rows"
  /\ Len(fresult.node.rows) = 2
  /\ fresult.node.rows[1].link
  /\ ~fresult.node.rows[2].link

(* C17: the open flag belongs to the caller: the dialog's events (action   *)
(* click, open-state change) happen only while the flag is set, and the    *)
(* flag changes only when the caller opens the modal or in a step in which *)
(* the modal called the caller's onClose, and then only to closed.         *)
C17_CallerOwnsOpen ==
  [][ /\ event'.type \in {"click", "openChange"} => isOpen
      /\ isOpen' # isOpen =>
           \/ event'.type = "open" /\ isOpen'
           \/ /\ ~isOpen'
              /\ event'.type \in {"click", "openChange"}
              /\ \E k \in 1..Len(calls') : calls'[k].fn = "onClose" ]_vars

C17_Witness ==
  /\ event.type = "openChange"
  /\ ~isOpen
  /\ calls = <<Call("onClose", "", << >>)>>

(* C18: in each authentication form at most one submission is outstanding: *)
(* while the simulated delay of a submission is pending the loading flag   *)
(* is set, and a submission starts only when none is pending.              *)
C18_OneOutstanding ==
  /\ timers <= 1
  /\ timers = 1 => isLoading

C18_Witness ==
  /\ submits = MaxSubmits
  /\ timers = 1
  /\ isLoading
  /\ redirects = 1

(* C19: the body shows its sections in the fixed order Basic Information,  *)
(* Media, Additional Information, Meta Information; inside a section the   *)
(* columns stand in the relative order they have in the column list, and   *)
(* each row shows the formatted value of the record under its column's key.*)
SectionRank(t) ==
  CASE t = "Basic Information" -> 1
    [] t = "Media" -> 2
    [] t = "Additional Information" -> 3
    [] t = "Meta Information" -> 4
    [] OTHER -> 0

Sections == SelectSeq(view.body, LAMBDA n : n.kind = "section")

RowKeys(section) == [j \in 1..Len(section.rows) |-> section.rows[j].key]

(* the columns of the list that the section shows, in the list's order *)
ShownColumns(section) ==
  SelectSeq(columns, LAMBDA col : InList(RowKeys(section), col.key))

C19_SectionOrder ==
  /\ \A i \in 1..Len(Sections) : SectionRank(Sections[i].title) > 0
  /\ \A i, j \in 1..Len(Sections) :
       i < j => SectionRank(Sections[i].title) < SectionRank(Sections[j].title)
  /\ \A i \in 1..Len(Sections) :
       LET shown == ShownColumns(Sections[i])
       IN /\ Len(shown) = Len(Sections[i].rows)
          /\ \A j \in 1..Len(shown) :
               /\ Sections[i].rows[j].key = shown[j].key
               /\ Sections[i].rows[j].value
                    = formatValue(Get(item, shown[j].key), <<shown[j]>>, item)

C19_Witness ==
  /\ Len(columns) = 3
  /\ columns[1].key = s_createdAt
  /\ columns[2].key = s_name
  /\ columns[3].key = s_email
  /\ Len(Sections) = 3
  /\ RowKeys(Sections[1]) = <<s_name, s_email>>
  /\ Sections[3].title = "Meta Information"
  /\ RowKeys(Sections[3]) = <<s_createdAt>>

(* C20: a column with key "email" and no declared type is in basic and not *)
(* in other, at every position of the column list and next to any other    *)
(* columns.                                                                *)
C20_EmailIsBasic ==
  \A i \in 1..Len(columns) :
    columns[i].key = s_email /\ columns[i].type = "default" =>
      /\ InList(view.basic, columns[i])
      /\ ~InList(view.other, columns[i])

C20_Witness ==
  /\ Len(columns) = MaxCols
  /\ columns[MaxCols].key = s_email
  /\ columns[MaxCols].type = "default"
  /\ columns[1].key # s_email
  /\ Len(view.other) > 0
  /\ InList(view.basic, columns[MaxCols])

(* C21: the subtitle is shown exactly when record.subtitle is a string or  *)
(* a number; an absent, boolean, array or mapping subtitle is not shown,   *)
(* whether or not the column list has a subtitle column.                   *)
SubtitleShape == Get(item, s_subtitle).shape

HasSubtitleColumn == \E i \in 1..Len(columns) : columns[i].key = s_subtitle

(* the header shows a subtitle: the evaluation did not raise and the      *)
(* DialogDescription is part of the tree                                   *)
SubtitleVisible == view.outcome = "rendered" /\ view.subtitle.shown

C21_Subtitle ==
  /\ SubtitleVisible => SubtitleShape \in {"string", "number"}
  /\ view.outcome = "rendered" /\ SubtitleShape \in {"string", "number"} => SubtitleVisible
  /\ SubtitleVisible => view.subtitle.value = Get(item, s_subtitle)

C21_Witness ==
  /\ HasSubtitleColumn
  /\ SubtitleShape = "boolean"
  /\ view.outcome = "rendered"
  /\ ~SubtitleVisible
  /\ event.type = "setItem"

(* C22: a column is in more than one bucket only through media: basic and  *)
(* meta share no column, other shares no column with basic, media or meta, *)
(* a column is in two buckets exactly when it is in media (type image or   *)
(* key containing "image") and its key is a basic or a meta name, and no   *)
(* column is in three buckets.                                             *)
IsMediaColumn(col) == col.type = "image" \/ includes(col.key, s_image)

C22_OverlapOnlyMedia ==
  \A i \in 1..Len(columns) :
    LET col == columns[i]
        in == BucketsOf(col)
    IN /\ ~({"basic", "meta"} \subseteq in)
       /\ "other" \in in => in = {"other"}
       /\ Cardinality(in) = 2 <=>
            /\ IsMediaColumn(col)
            /\ InList(BasicNames, col.key) \/ InList(MetaNames, col.key)
       /\ Cardinality(in) < 3

C22_Witness ==
  /\ Len(columns) = 3
  /\ BucketsOf(columns[1]) = {"media", "meta"}
  /\ BucketsOf(columns[2]) = {"basic", "media"}
  /\ BucketsOf(columns[3]) = {"media"}

(* C23: in each authentication form every started submission clears the   *)
(* loading flag when its simulated delay completes, on the success and on  *)
(* the failure path, so the flag never stays set forever; and the flag is  *)
(* set only while a submission is between its start and its completion.    *)
C23_LoadingClears ==
  /\ [](isLoading => timers > 0)
  /\ isLoading ~> ~isLoading
  /\ (timers > 0) ~> (timers = 0 /\ ~isLoading)

C23_Witness ==
  /\ submits > 0
  /\ ~isLoading
  /\ timers = 0
  /\ Len(log) >= 3
  /\ log[Len(log) - 1] = "toast.error"
  /\ log[Len(log)] = "loading.false"

(* C24: in each authentication form a redirect is issued only for a        *)
(* submission that succeeded, once per successful submission, after that   *)
(* submission's success toast and after its loading flag was cleared; a    *)
(* failed submission issues an error toast and no redirect; and the        *)
(* forgot-password form stores the reset e-mail and the OTP-sent time      *)
(* before it schedules the redirect.                                       *)
Count(x) == Cardinality({ k \in 1..Len(log) : log[k] = x })

(* how many of log[1..k] are x *)
CountUpTo(x, k) == Cardinality({ j \in 1..k : log[j] = x })

(* the position of the n-th x of the log, 0 when there is none *)
NthPosition(x, n) ==
  IF \E k \in 1..Len(log) : log[k] = x /\ CountUpTo(x, k) = n
  THEN CHOOSE k \in 1..Len(log) : log[k] = x /\ CountUpTo(x, k) = n
  ELSE 0

(* the order of the effects so far; a scheduled redirect that has not fired *)
(* yet is counted by `redirects`                                           *)
RedirectOrder ==
  /\ Count("router.push") + redirects = Count("schedule.redirect")
  /\ Count("schedule.redirect") + Count("toast.error") = Count("loading.false")
  /\ \A k \in 1..Len(log) :
       log[k] = "schedule.redirect" =>
         /\ k < Len(log) /\ log[k + 1] = "loading.false"
         /\ IF form = "forgot"
            THEN /\ k > 3
                 /\ log[k - 3] = "toast.success"
                 /\ log[k - 2] = "store.resetEmail"
                 /\ log[k - 1] = "store.otpSentTime"
            ELSE k > 1 /\ log[k - 1] = "toast.success"
  /\ \A k \in 1..Len(log) :
       log[k] = "toast.error" => k < Len(log) /\ log[k + 1] = "loading.false"
  /\ \A k \in 1..Len(log) :
       log[k] = "router.push" =>
         LET p == NthPosition("schedule.redirect", CountUpTo("router.push", k))
         IN /\ p > 0
            /\ p + 1 < k
            /\ log[p + 1] = "loading.false"

C24_Redirects ==
  /\ []RedirectOrder
  /\ (redirects > 0) ~> (redirects = 0)

C24_Witness ==
  /\ form = "forgot"
  /\ Count("toast.error") = 1
  /\ Count("router.push") = 2
  /\ redirects = 0

(* C25: the strength of a password is the number of criteria it meets among *)
(* length >= 8, a lower-case letter, an upper-case letter, a digit and a    *)
(* character outside a-zA-Z0-9, so it is in 0..5; it is 0 with empty label  *)
(* and colour exactly when the password is empty; a non-empty password has  *)
(* strength >= 1 and the non-empty label and colour at index strength - 1   *)
(* of (Very Weak, Weak, Fair, Good, Strong).                                *)
Meets(criterion) ==
  CASE criterion = "length" -> Len(password) >= 8
    [] criterion = "lower" -> \E i \in 1..Len(password) : password[i] \in LowerCase
    [] criterion = "upper" -> \E i \in 1..Len(password) : password[i] \in UpperCase
    [] criterion = "digit" -> \E i \in 1..Len(password) : password[i] \in Digits
    [] criterion = "other" ->
         \E i \in 1..Len(password) :
           password[i] \notin (LowerCase \cup UpperCase \cup Digits)

CriteriaMet == { c \in {"length", "lower", "upper", "digit", "other"} : Meets(c) }

C25_Strength ==
  /\ passwordStrength.strength = Cardinality(CriteriaMet)
  /\ passwordStrength.strength \in 0..5
  /\ passwordStrength.strength = 0 <=> password = << >>
  /\ password = << >> => passwordStrength.label = "" /\ passwordStrength.color = ""
  /\ password # << >> =>
       /\ passwordStrength.strength >= 1
       /\ passwordStrength.label = Labels[passwordStrength.strength]
       /\ passwordStrength.color = Colors[passwordStrength.strength]
       /\ passwordStrength.label # ""
       /\ passwordStrength.color # ""

C25_Witness ==
  /\ Len(password) = 8
  /\ passwordStrength.strength = 5
  /\ passwordStrength.label = "Strong"
  /\ passwordStrength.color = "bg-green-500"

====
